---- MODULE Spec2Model ----
(***************************************************************************)
(* Model of src/c/main.c: a getopt(3) driven command line (-v, -f path,    *)
(* -n integer) followed by dump_file(), a bounded-buffer fgets/fputs copy  *)
(* of the opened file to standard output.                                  *)
(*                                                                         *)
(* Text is modelled as sequences of byte values (ASCII codes).  The C      *)
(* types are those of an LP64 build: int is 32 bits, unsigned long 64.     *)
(***************************************************************************)
EXTENDS Integers, Sequences, FiniteSets

VARIABLES
    argv,       \* the options on the command line, in order (argv[1..])
    fs,         \* the file system: path -> contents, for the openable paths
    optind,     \* number of options getopt has returned so far
    verbose,    \* main: int verbose
    number,     \* main: int number
    fp,         \* main: FILE *fp (NULL or a handle)
    streams,    \* the open input streams: handle -> [path, pos]
    buf,        \* dump_file: the characters the last fgets stored in buf
    rderr,      \* the stream's error indicator (a read failed)
    errno,      \* errno
    out,        \* the bytes written to standard output
    err,        \* the messages written to standard error
    ret,        \* the value dump_file returned (NoRet before it returns)
    status,     \* the exit status (Running before the process ends)
    pc          \* position of the program

vars == <<argv, fs, optind, verbose, number, fp, streams, buf, rderr, errno,
          out, err, ret, status, pc>>

----------------------------------------------------------------------------
(* Bounds of the model *)

MaxArgs == 3

----------------------------------------------------------------------------
(* Program constants *)

NULL == 0
EXIT_SUCCESS == 0
EXIT_FAILURE == 1
BUFLEN == 80                    \* char buf[80]
Running == 0 - 1                \* status of a process that has not ended
NoRet == 0 - 2                  \* dump_file has not returned

NUL == 0
LF == 10

\* #define OPTSTR "vf:n:" : the option letters, and whether each takes an
\* argument.
OPTSTR == [v |-> FALSE, f |-> TRUE, n |-> TRUE]

----------------------------------------------------------------------------
(* Byte strings *)

\* n bytes, distinct in neighbouring positions, starting from letter base
Rep(n, base) == [i \in 1..n |-> base + (i % 23)]

Min(S) == CHOOSE m \in S : \A k \in S : m <= k
Max(S) == CHOOSE m \in S : \A k \in S : k <= m

Range(s) == {s[i] : i \in 1..Len(s)}

IsPrefix(s, t) == Len(s) <= Len(t) /\ SubSeq(t, 1, Len(s)) = s

Drop(s, k) == SubSeq(s, k + 1, Len(s))

IsDigit(c) == c \in 48..57
IsSpace(c) == c \in {32, 9, 10, 11, 12, 13}

----------------------------------------------------------------------------
(* strtoul(optarg, NULL, 10), on a 64-bit unsigned long held as four       *)
(* 16-bit limbs, least significant first                                   *)

LimbBase == 65536
Zero64 == <<0, 0, 0, 0>>
ULONG_MAX == <<65535, 65535, 65535, 65535>>

\* x * 10 + d, with the carry out of the top limb
MulAdd10(x, d) ==
    LET c1 == x[1] * 10 + d
        c2 == x[2] * 10 + (c1 \div LimbBase)
        c3 == x[3] * 10 + (c2 \div LimbBase)
        c4 == x[4] * 10 + (c3 \div LimbBase)
    IN  [v |-> <<c1 % LimbBase, c2 % LimbBase, c3 % LimbBase, c4 % LimbBase>>,
         carry |-> c4 \div LimbBase]

\* two's complement negation modulo 2^64
Negate64(x) ==
    LET n1 == (LimbBase - 1 - x[1]) + 1
        n2 == (LimbBase - 1 - x[2]) + (n1 \div LimbBase)
        n3 == (LimbBase - 1 - x[3]) + (n2 \div LimbBase)
        n4 == (LimbBase - 1 - x[4]) + (n3 \div LimbBase)
    IN  <<n1 % LimbBase, n2 % LimbBase, n3 % LimbBase, n4 % LimbBase>>

RECURSIVE SkipSpace(_, _)
SkipSpace(s, i) ==
    IF i <= Len(s) /\ IsSpace(s[i]) THEN SkipSpace(s, i + 1) ELSE i

RECURSIVE Accum(_, _, _)
\* consume the digits from position i on; acc = [v, ovf, any]
Accum(s, i, acc) ==
    IF i <= Len(s) /\ IsDigit(s[i])
    THEN LET m == MulAdd10(acc.v, s[i] - 48)
         IN  IF acc.ovf \/ m.carry > 0
             THEN Accum(s, i + 1, [v |-> ULONG_MAX, ovf |-> TRUE, any |-> TRUE])
             ELSE Accum(s, i + 1, [v |-> m.v, ovf |-> FALSE, any |-> TRUE])
    ELSE acc

\* the value and whether ERANGE was raised
Strtoul(s) ==
    LET i == SkipSpace(s, 1)
        neg == i <= Len(s) /\ s[i] = 45
        j == IF i <= Len(s) /\ s[i] \in {43, 45} THEN i + 1 ELSE i
        a == Accum(s, j, [v |-> Zero64, ovf |-> FALSE, any |-> FALSE])
    IN  IF ~a.any THEN [v |-> Zero64, erange |-> FALSE]
        ELSE IF a.ovf THEN [v |-> ULONG_MAX, erange |-> TRUE]
        ELSE [v |-> IF neg THEN Negate64(a.v) ELSE a.v, erange |-> FALSE]

\* the assignment int number = <unsigned long>: the low 32 bits, as a
\* two's complement int
ToInt(x) ==
    (IF x[2] >= 32768 THEN x[2] - LimbBase ELSE x[2]) * LimbBase + x[1]

----------------------------------------------------------------------------
(* printf("%d") *)

RECURSIVE FormatU(_)
FormatU(m) ==
    IF m < 10 THEN <<48 + m>> ELSE Append(FormatU(m \div 10), 48 + (m % 10))

FormatD(n) ==
    IF n >= 0 THEN FormatU(n)
    ELSE LET m == 0 - (n + 1)          \* |n| - 1, representable for INT_MIN
             last == ((m % 10) + 1) % 10
             rest == (m \div 10) + (IF m % 10 = 9 THEN 1 ELSE 0)
         IN  <<45>> \o (IF rest = 0 THEN <<>> ELSE FormatU(rest)) \o <<48 + last>>

\* "verbose = %d\n"
VerboseLine(v) ==
    <<118, 101, 114, 98, 111, 115, 101, 32, 61, 32>> \o FormatD(v) \o <<LF>>

\* "number  = %d\n"
NumberLine(n) ==
    <<110, 117, 109, 98, 101, 114, 32, 32, 61, 32>> \o FormatD(n) \o <<LF>>

----------------------------------------------------------------------------
(* fgets and fputs *)

\* how many characters fgets stores reading content from position pos
\* (characters already consumed) with room for room more: it stops after
\* room characters, at end of file, or after a newline, whichever is first
FgetsLen(content, pos, room) ==
    LET lim == Min({Len(content), pos + room})
        nl == {i \in (pos + 1)..lim : content[i] = LF}
    IN  IF lim <= pos THEN 0
        ELSE IF nl = {} THEN lim - pos
        ELSE Min(nl) - pos

\* variant: fgets fills all size characters of the buffer
Fgets_OffByOne(content, pos, size) ==
    SubSeq(content, pos + 1, pos + FgetsLen(content, pos, size))

\* fgets(buf, size, filep): at most size - 1 characters, through the first
\* newline
Fgets(content, pos, size) ==
    SubSeq(content, pos + 1, pos + FgetsLen(content, pos, size - 1))

\* strlen of the C string stored in s: the bytes before the first NUL
StrLen(s) ==
    LET z == {i \in 1..Len(s) : s[i] = NUL}
    IN  IF z = {} THEN Len(s) ELSE Min(z) - 1

\* variant: puts instead of fputs, which appends a newline
Fputs_Puts(s) == SubSeq(s, 1, StrLen(s)) \o <<LF>>

\* fputs(buf, output) writes the C string in buf: up to the first NUL
Fputs(s) == SubSeq(s, 1, StrLen(s))

----------------------------------------------------------------------------
(* The command lines and file systems explored *)

PathA == <<97>>
PathB == <<98>>
PathX == <<120>>                \* names no file
Paths == {PathA, PathB, PathX}

NumStrs ==
    { <<52, 50>>,                                   \* "42"
      <<48, 48, 55>>,                               \* "007"
      <<50, 49, 52, 55, 52, 56, 51, 54, 52, 55>>,   \* "2147483647"
      <<50, 49, 52, 55, 52, 56, 51, 54, 52, 56>>,   \* "2147483648"
      <<97, 98, 99>>,                               \* "abc"
      <<49, 50, 97>>,                               \* "12a"
      <<49, 56, 52, 52, 54, 55, 52, 52, 48, 55, 51, 55, 48, 57, 53, 53, 49,
        54, 49, 54>> }                              \* "18446744073709551616"

Opt(flag, arg) == [flag |-> flag, arg |-> arg]

Options ==
    {Opt("v", <<>>), Opt("h", <<>>), Opt("z", <<>>)}
    \cup {Opt("f", p) : p \in Paths}
    \cup {Opt("n", s) : s \in NumStrs}

ArgLists == UNION {[1..k -> Options] : k \in 0..MaxArgs}

\* the command lines of the liveness check: every kind of option, one -n
\* argument (the number plays no part in the copy)
CopyOptions == {o \in Options : o.flag = "n" => o.arg = <<52, 50>>} \ {Opt("z", <<>>)}
CopyArgLists == UNION {[1..k -> CopyOptions] : k \in 0..MaxArgs}

\* contents of the file named a: lower-case letters
ContentsA ==
    { <<>>,                                             \* empty file
      <<104, 105, LF>>,                                 \* "hi\n"
      <<104, 105, LF, LF, 120>>,                        \* "hi\n\nx", no final newline
      Rep(BUFLEN - 3, 97) \o <<LF>>,                    \* 78 bytes: fills one read
      Rep(BUFLEN - 2, 97) \o <<LF>> \o <<121, LF>>,     \* 79-byte line, then "y\n"
      Rep(BUFLEN - 1, 97) \o <<LF>>,                    \* 80-byte line
      Rep(2 * BUFLEN, 97),                              \* 160 bytes, no newline
      <<97, NUL, 98, LF, 99, LF>> }                     \* not text: holds a NUL

\* contents of the file named b: upper-case letters
ContentB == <<72, 69, 76, 76, 79, LF, 87, LF>>

FileSystems ==
    {[p \in {PathA, PathB} |-> IF p = PathA THEN c ELSE ContentB] : c \in ContentsA}

----------------------------------------------------------------------------
(* State after program start *)

\* the locals of main before the first getopt call
Startup ==
    /\ optind = 0
    /\ verbose = 0
    /\ number = 0
    /\ fp = NULL
    /\ streams = <<>>
    /\ buf = <<>>
    /\ rderr = FALSE
    /\ errno = "0"
    /\ out = <<>>
    /\ err = <<>>
    /\ ret = NoRet
    /\ status = Running
    /\ pc = "getopt"

Init ==
    /\ argv \in ArgLists
    /\ fs \in FileSystems
    /\ Startup

\* getopt(argc, argv, OPTSTR) for the next option: its letter, or "?" when
\* the letter is not in OPTSTR
Getopt(a) == IF a.flag \in DOMAIN OPTSTR THEN a.flag ELSE "?"

opt == Getopt(argv[optind + 1])
optarg == argv[optind + 1].arg

\* fclose(h)
Fclose(s, h) == [k \in (DOMAIN s) \ {h} |-> s[k]]

\* fopen(path, "r") returning handle h
Fopen(s, h, path) ==
    [k \in (DOMAIN s) \cup {h} |-> IF k = h THEN [path |-> path, pos |-> 0] ELSE s[k]]

Perror(prefix) == [kind |-> "perror", prefix |-> prefix, errno |-> errno']
Usage == [kind |-> "usage", prefix |-> "", errno |-> ""]

\* variant: -v sets a flag instead of counting
CaseV_Flag ==
    /\ pc = "getopt" /\ optind < Len(argv) /\ opt = "v"
    /\ optind' = optind + 1
    /\ verbose' = 1
    /\ UNCHANGED <<argv, fs, number, fp, streams, buf, rderr, errno, out, err,
                   ret, status, pc>>

\* case 'v'
CaseV ==
    /\ pc = "getopt" /\ optind < Len(argv) /\ opt = "v"
    /\ optind' = optind + 1
    /\ verbose' = verbose + 1
    /\ UNCHANGED <<argv, fs, number, fp, streams, buf, rderr, errno, out, err,
                   ret, status, pc>>

\* variant: a later -f is ignored once a stream is open
CaseF_KeepFirst ==
    /\ pc = "getopt" /\ optind < Len(argv) /\ opt = "f"
    /\ optind' = optind + 1
    /\ IF fp # NULL
       THEN UNCHANGED <<fp, streams, errno, err, status, pc>>
       ELSE IF optarg \in DOMAIN fs
       THEN /\ fp' = optind + 1
            /\ streams' = Fopen(streams, optind + 1, optarg)
            /\ UNCHANGED <<errno, err, status, pc>>
       ELSE /\ fp' = NULL
            /\ streams' = streams
            /\ errno' = "ENOENT"
            /\ err' = Append(err, Perror("-f: error opening file"))
            /\ status' = EXIT_FAILURE
            /\ pc' = "exited"
    /\ UNCHANGED <<argv, fs, verbose, number, buf, rderr, out, ret>>

\* variant: the previous stream is not closed
CaseF_NoClose ==
    /\ pc = "getopt" /\ optind < Len(argv) /\ opt = "f"
    /\ optind' = optind + 1
    /\ IF optarg \in DOMAIN fs
       THEN /\ fp' = optind + 1
            /\ streams' = Fopen(streams, optind + 1, optarg)
            /\ UNCHANGED <<errno, err, status, pc>>
       ELSE /\ fp' = NULL
            /\ streams' = streams
            /\ errno' = "ENOENT"
            /\ err' = Append(err, Perror("-f: error opening file"))
            /\ status' = EXIT_FAILURE
            /\ pc' = "exited"
    /\ UNCHANGED <<argv, fs, verbose, number, buf, rderr, out, ret>>

\* variant: the new file is opened before the previous stream is closed,
\* and a failed open exits with the previous stream still open
CaseF_OpenFirst ==
    /\ pc = "getopt" /\ optind < Len(argv) /\ opt = "f"
    /\ optind' = optind + 1
    /\ IF optarg \in DOMAIN fs
       THEN /\ fp' = optind + 1
            /\ streams' = Fopen(IF fp # NULL THEN Fclose(streams, fp) ELSE streams,
                                optind + 1, optarg)
            /\ UNCHANGED <<errno, err, status, pc>>
       ELSE /\ UNCHANGED <<fp, streams>>
            /\ errno' = "ENOENT"
            /\ err' = Append(err, Perror("-f: error opening file"))
            /\ status' = EXIT_FAILURE
            /\ pc' = "exited"
    /\ UNCHANGED <<argv, fs, verbose, number, buf, rderr, out, ret>>

\* case 'f'
CaseF ==
    /\ pc = "getopt" /\ optind < Len(argv) /\ opt = "f"
    /\ optind' = optind + 1
    /\ LET closed == IF fp # NULL THEN Fclose(streams, fp) ELSE streams
       IN  IF optarg \in DOMAIN fs
           THEN /\ fp' = optind + 1
                /\ streams' = Fopen(closed, optind + 1, optarg)
                /\ UNCHANGED <<errno, err, status, pc>>
           ELSE /\ fp' = NULL
                /\ streams' = closed
                /\ errno' = "ENOENT"
                /\ err' = Append(err, Perror("-f: error opening file"))
                /\ status' = EXIT_FAILURE
                /\ pc' = "exited"
    /\ UNCHANGED <<argv, fs, verbose, number, buf, rderr, out, ret>>

\* case 'n'
CaseN ==
    /\ pc = "getopt" /\ optind < Len(argv) /\ opt = "n"
    /\ optind' = optind + 1
    /\ LET r == Strtoul(optarg)
       IN  /\ number' = ToInt(r.v)
           /\ errno' = IF r.erange THEN "ERANGE" ELSE errno
    /\ UNCHANGED <<argv, fs, verbose, fp, streams, buf, rderr, out, err, ret,
                   status, pc>>

\* variant: the usage message is printed but the process goes on
CaseUsage_NoExit ==
    /\ pc = "getopt" /\ optind < Len(argv) /\ opt \notin {"v", "f", "n"}
    /\ optind' = optind + 1
    /\ err' = Append(err, Usage)
    /\ UNCHANGED <<argv, fs, verbose, number, fp, streams, buf, rderr, errno,
                   out, ret, status, pc>>

\* case 'h': case '?': default:
CaseUsage ==
    /\ pc = "getopt" /\ optind < Len(argv) /\ opt \notin {"v", "f", "n"}
    /\ optind' = optind + 1
    /\ err' = Append(err, Usage)
    /\ status' = EXIT_FAILURE
    /\ pc' = "exited"
    /\ UNCHANGED <<argv, fs, verbose, number, fp, streams, buf, rderr, errno,
                   out, ret>>

\* getopt returns EOF; the two printf calls
PrintConfig ==
    /\ pc = "getopt" /\ optind = Len(argv)
    /\ out' = out \o VerboseLine(verbose) \o NumberLine(number)
    /\ pc' = "dump"
    /\ UNCHANGED <<argv, fs, optind, verbose, number, fp, streams, buf, rderr,
                   errno, err, ret, status>>

\* variant: a null input is treated as an empty one
DumpEnter_NullOk ==
    /\ pc = "dump"
    /\ IF fp = NULL
       THEN /\ ret' = 0
            /\ status' = EXIT_SUCCESS
            /\ pc' = "exited"
            /\ UNCHANGED <<errno, err>>
       ELSE /\ pc' = "loop"
            /\ UNCHANGED <<errno, ret, err, status>>
    /\ UNCHANGED <<argv, fs, optind, verbose, number, fp, streams, buf, rderr,
                   out>>

\* dump_file(fp, stdout) is entered: the null check, and in main the
\* handling of a negative return
DumpEnter ==
    /\ pc = "dump"
    /\ IF fp = NULL
       THEN /\ errno' = "EINVAL"
            /\ ret' = 0 - 1
            /\ err' = Append(err, Perror("dump_file"))
            /\ status' = EXIT_FAILURE
            /\ pc' = "exited"
       ELSE /\ pc' = "loop"
            /\ UNCHANGED <<errno, ret, err, status>>
    /\ UNCHANGED <<argv, fs, optind, verbose, number, fp, streams, buf, rderr,
                   out>>

\* one iteration of the while loop: fgets stores a chunk, fputs writes it
LoopChunk ==
    /\ pc = "loop"
    /\ LET content == fs[streams[fp].path]
           pos == streams[fp].pos
           chunk == Fgets(content, pos, BUFLEN - 1)
       IN  /\ chunk # <<>>
           /\ buf' = chunk
           /\ streams' = [streams EXCEPT ![fp].pos = pos + Len(chunk)]
           /\ out' = out \o Fputs(chunk)
    /\ UNCHANGED <<argv, fs, optind, verbose, number, fp, rderr, errno, err,
                   ret, status, pc>>

\* variant: dump_file returns EOF when the input ends
LoopEOF_RetEOF ==
    /\ pc = "loop"
    /\ streams[fp].pos >= Len(fs[streams[fp].path])
    /\ ret' = 0 - 1
    /\ err' = Append(err, [kind |-> "perror", prefix |-> "dump_file", errno |-> errno])
    /\ status' = EXIT_FAILURE
    /\ pc' = "exited"
    /\ UNCHANGED <<argv, fs, optind, verbose, number, fp, streams, buf, rderr,
                   errno, out>>

\* fgets returns NULL at end of file: dump_file returns 0, main returns
\* EXIT_SUCCESS
LoopEOF ==
    /\ pc = "loop"
    /\ streams[fp].pos >= Len(fs[streams[fp].path])
    /\ ret' = 0
    /\ status' = EXIT_SUCCESS
    /\ pc' = "exited"
    /\ UNCHANGED <<argv, fs, optind, verbose, number, fp, streams, buf, rderr,
                   errno, out, err>>

\* fgets returns NULL because the read failed: the loop ends the same way
LoopReadError ==
    /\ pc = "loop"
    /\ streams[fp].pos < Len(fs[streams[fp].path])
    /\ rderr' = TRUE
    /\ errno' = "EIO"
    /\ ret' = 0
    /\ status' = EXIT_SUCCESS
    /\ pc' = "exited"
    /\ UNCHANGED <<argv, fs, optind, verbose, number, fp, streams, buf, out,
                   err>>

Next ==
    \/ CaseV
    \/ CaseF
    \/ CaseN
    \/ CaseUsage
    \/ PrintConfig
    \/ DumpEnter
    \/ LoopChunk
    \/ LoopEOF
    \/ LoopReadError

Spec == Init /\ [][Next]_vars

\* the while loop of dump_file
Loop == LoopChunk \/ LoopEOF \/ LoopReadError

\* the process is sequential: a copier that is reading always goes on to
\* its next read
InitCopy ==
    /\ argv \in CopyArgLists
    /\ fs \in FileSystems
    /\ Startup

FairSpec == InitCopy /\ [][Next]_vars /\ WF_vars(Loop)

----------------------------------------------------------------------------
(* Vocabulary of the properties *)

IsText(c) == NUL \notin Range(c)

FlagIdx(flag) == {i \in 1..Len(argv) : argv[i].flag = flag}
NumV == Cardinality(FlagIdx("v"))
NoBadFlag == \A i \in 1..Len(argv) : Getopt(argv[i]) # "?"
AllFOpen == \A i \in FlagIdx("f") : argv[i].arg \in DOMAIN fs
LastPath == argv[Max(FlagIdx("f"))].arg
LastNum == argv[Max(FlagIdx("n"))].arg

ConfigLines == VerboseLine(verbose) \o NumberLine(number)

\* the part of standard output after the configuration lines
Body == Drop(out, Len(ConfigLines))

PerrorOf(prefix, e) == [kind |-> "perror", prefix |-> prefix, errno |-> e]

----------------------------------------------------------------------------
\* C1: when no flag is unrecognized, every -f opens and the last -f names a
\* text file that is read without error, the finished process has written
\* exactly the verbose line, the number line and then the file's bytes, in
\* order, and has exit status 0.
C1_CopyIsExact ==
    (/\ pc = "exited" /\ NoBadFlag /\ FlagIdx("f") # {} /\ AllFOpen
     /\ IsText(fs[LastPath]) /\ ~rderr)
    => /\ out = ConfigLines \o fs[LastPath]
       /\ status = EXIT_SUCCESS

C1_Witness ==
    /\ pc = "exited" /\ NoBadFlag /\ FlagIdx("f") # {} /\ AllFOpen
    /\ ~rderr /\ LastPath = PathA /\ Len(fs[PathA]) > BUFLEN
    /\ IsText(fs[PathA])
    /\ status = EXIT_SUCCESS
    /\ out = ConfigLines \o fs[PathA]

\* C2: once the configuration lines are printed, the verbose line carries
\* the number of -v options on the command line, wherever they stand among
\* the -f and -n options.
C2_VerboseCountsV ==
    out # <<>> => IsPrefix(VerboseLine(NumV), out)

C2_Witness ==
    /\ out # <<>> /\ Len(argv) = 3
    /\ argv[1].flag = "v" /\ argv[2].flag \in {"f", "n"} /\ argv[3].flag = "v"
    /\ IsPrefix(VerboseLine(2), out)

\* the decimal digits of an all-digit string without its leading zeros
RECURSIVE Canon(_)
Canon(s) == IF Len(s) > 1 /\ s[1] = 48 THEN Canon(Tail(s)) ELSE s

AllDigits(s) == s # <<>> /\ \A i \in 1..Len(s) : IsDigit(s[i])
NonNumeric(s) == s = <<>> \/ ~(IsDigit(s[1]) \/ IsSpace(s[1]) \/ s[1] \in {43, 45})

NumberText(digits) ==
    <<110, 117, 109, 98, 101, 114, 32, 32, 61, 32>> \o digits \o <<LF>>

\* C3: the number line carries the base-10 value of the last -n argument,
\* whatever its magnitude, and 0 for a non-numeric argument.
C3_NumberIsParsedValue ==
    (out # <<>> /\ FlagIdx("n") # {})
    => /\ AllDigits(LastNum)
          => IsPrefix(VerboseLine(verbose) \o NumberText(Canon(LastNum)), out)
       /\ NonNumeric(LastNum)
          => IsPrefix(VerboseLine(verbose) \o NumberText(<<48>>), out)

\* C4: with two or more -f options that all open, the finished process has
\* exit status 0, has reported no error, and its output after the
\* configuration lines consists of bytes of the last-named file only.
C4_LastFileWins ==
    (/\ pc = "exited" /\ NoBadFlag /\ Cardinality(FlagIdx("f")) >= 2 /\ AllFOpen)
    => /\ status = EXIT_SUCCESS
       /\ err = <<>>
       /\ IsPrefix(ConfigLines, out)
       /\ (IsText(fs[LastPath]) /\ ~rderr) => Body = fs[LastPath]
       /\ Range(Body) \subseteq Range(fs[LastPath])
       /\ \A i \in FlagIdx("f") :
            argv[i].arg # LastPath
            => Range(Body) \cap Range(fs[argv[i].arg]) \subseteq {LF}

C4_Witness ==
    /\ pc = "exited" /\ NoBadFlag /\ AllFOpen /\ ~rderr
    /\ Len(argv) = 3
    /\ argv[1] = Opt("f", PathA) /\ argv[3] = Opt("f", PathB)
    /\ fs[PathA] # <<>>
    /\ Body = ContentB
    /\ status = EXIT_SUCCESS

\* C5: at most one input stream is open in every state, and an open stream
\* is the one fp refers to.
C5_AtMostOneOpen ==
    /\ Cardinality(DOMAIN streams) <= 1
    /\ DOMAIN streams \subseteq {fp}

C5_Witness ==
    /\ pc = "getopt"
    /\ Cardinality({i \in FlagIdx("f") : i <= optind}) >= 2
    /\ DOMAIN streams = {fp}
    /\ fp = optind

\* C6: with no -f and no unrecognized flag, the finished process has a
\* non-zero exit status, dump_file returned failure with EINVAL, and
\* standard output holds the configuration lines and nothing else.
C6_NoFileFails ==
    (pc = "exited" /\ NoBadFlag /\ FlagIdx("f") = {})
    => /\ status # EXIT_SUCCESS
       /\ ret < 0
       /\ err = <<PerrorOf("dump_file", "EINVAL")>>
       /\ out = ConfigLines
       /\ buf = <<>>

C6_Witness ==
    /\ pc = "exited" /\ NoBadFlag /\ FlagIdx("f") = {} /\ argv # <<>>
    /\ status = EXIT_FAILURE
    /\ out = ConfigLines

\* C7: when getopt has returned an unrecognized flag, the process has ended
\* at that option with a non-zero status, the usage message is on standard
\* error and nothing is on standard output.
C7_UsageError ==
    \A i \in 1..optind :
        Getopt(argv[i]) = "?"
        => /\ pc = "exited" /\ optind = i
           /\ status # EXIT_SUCCESS
           /\ err = <<Usage>>
           /\ out = <<>>

C7_Witness ==
    /\ optind = 3 /\ argv[3].flag = "h"
    /\ argv[1].flag = "f" /\ argv[2].flag = "v"
    /\ pc = "exited" /\ err = <<Usage>> /\ out = <<>>

\* C8: when a -f names a file that cannot be opened, the process has ended
\* at that option with a non-zero status and the system error on standard
\* error; nothing is on standard output, dump_file was not called, and no
\* stream is open.
C8_OpenFailure ==
    \A i \in 1..optind :
        (argv[i].flag = "f" /\ argv[i].arg \notin DOMAIN fs)
        => /\ pc = "exited" /\ optind = i
           /\ status # EXIT_SUCCESS
           /\ err = <<PerrorOf("-f: error opening file", "ENOENT")>>
           /\ out = <<>>
           /\ ret = NoRet
           /\ streams = <<>> /\ fp = NULL

C8_Witness ==
    /\ Len(argv) = 3 /\ optind = 2
    /\ argv[1] = Opt("f", PathA) /\ argv[2] = Opt("f", PathX)
    /\ pc = "exited" /\ status = EXIT_FAILURE
    /\ streams = <<>>

\* C9: while the copier is reading (OPEN) a step either writes the chunk it
\* read and stays OPEN, or ends the copier (DONE) with dump_file returning
\* success; nothing changes after dump_file has returned; and a copier that
\* is reading eventually returns success.
C9_CopierStateMachine ==
    /\ [][pc = "loop"
          => \/ /\ pc' = "loop" /\ ret' = NoRet
                /\ buf' # <<>>
                /\ streams'[fp].pos = streams[fp].pos + Len(buf')
                /\ out' = out \o Fputs(buf')
             \/ /\ pc' = "exited" /\ ret' = 0 /\ status' = EXIT_SUCCESS
                /\ out' = out]_vars
    /\ [][ret # NoRet => UNCHANGED vars]_vars
    /\ (pc = "loop") ~> (pc = "exited" /\ ret = 0)

C9_Witness ==
    /\ pc = "exited" /\ ret = 0 /\ ~rderr
    /\ streams[fp].pos > BUFLEN

\* C10: every chunk read is non-empty, fits the 79 characters fgets is given
\* together with its terminator, is the next bytes of the file, and ends at
\* a newline, at the maximum length or at end of file; for a text file the
\* output after the configuration lines is always the file up to the read
\* position, and the whole file once the copier has finished reading it.
C10_ChunksBounded ==
    (pc = "loop" \/ ret = 0)
    => LET content == fs[streams[fp].path]
           pos == streams[fp].pos
           n == Len(buf)
       IN  /\ buf # <<>>
              => /\ n + 1 <= BUFLEN - 1
                 /\ buf = SubSeq(content, pos - n + 1, pos)
                 /\ \A i \in 1..(n - 1) : buf[i] # LF
                 /\ \/ buf[n] = LF
                    \/ n + 1 = BUFLEN - 1
                    \/ pos = Len(content)
           /\ (buf = <<>>) = (pos = 0)
           /\ IsText(content) => out = ConfigLines \o SubSeq(content, 1, pos)
           /\ (ret = 0 /\ ~rderr) => pos = Len(content)

C10_Witness ==
    /\ pc = "exited" /\ ret = 0 /\ ~rderr
    /\ LET content == fs[streams[fp].path]
       IN  /\ Len(content) = BUFLEN
           /\ content[BUFLEN] = LF
           /\ Len(buf) = 2
           /\ out = ConfigLines \o content

TypeOK ==
    /\ optind \in 0..Len(argv)
    /\ verbose \in 0..MaxArgs
    /\ fp \in 0..MaxArgs
    /\ DOMAIN streams \subseteq 1..MaxArgs
    /\ status \in {Running, EXIT_SUCCESS, EXIT_FAILURE}
    /\ ret \in {NoRet, 0, 0 - 1}
    /\ pc \in {"getopt", "dump", "loop", "exited"}
====
